---- MODULE Spec2Model ----
(***************************************************************************)
(* Model of the inotify event publisher                                    *)
(* (osquery/events/linux/inotify.cpp): the Watch Table                     *)
(* (descriptor_inosubctx_, descriptor_paths_, path_descriptors_), the      *)
(* Subscription Registry (subscriptions_), the reconfiguration pass        *)
(* (configure) and the reader tick (run).                                  *)
(*                                                                         *)
(* Paths are sequences of one-character strings, so that substr, find,     *)
(* rfind and concatenation are computed as the code computes them.         *)
(* An event mask is the set of its bits.                                   *)
(***************************************************************************)
EXTENDS Integers, Sequences, FiniteSets, TLC

----------------------------------------------------------------------------
(* Bounds *)

\* Number of watch descriptors the kernel hands out before it rejects
\* further installs (max_user_watches).
MaxWd == 2

\* Number of subscriptions the registry accepts in one run.
MaxSubs == 2

\* Largest change-time (st_ctime) a path takes.
MaxCtime == 2

\* Largest number of action bits set in one record's mask.
MaxBits == 3

\* Largest value of the clock (getUnixTime), in seconds.
MaxTime == 122

\* Largest number of loop iterations (records of a tick, subscriptions,
\* descriptors, resolved paths, child directories) in one run() or one
\* reconfiguration call.
MaxIter == 2

----------------------------------------------------------------------------
(* inotify mask bits (<sys/inotify.h>), used by kMaskActions and run() *)

IN_ACCESS == 1
IN_MODIFY == 2
IN_ATTRIB == 4
IN_CLOSE_WRITE == 8
IN_OPEN == 32
IN_MOVED_FROM == 64
IN_MOVED_TO == 128
IN_CREATE == 256
IN_DELETE == 512
IN_DELETE_SELF == 1024
IN_MOVE_SELF == 2048
IN_IGNORED == 32768

\* The value inotify_add_watch returns when the kernel rejects the path.
KFail == 0 - 1

----------------------------------------------------------------------------
(* Strings *)

Slash == "/"
Star == "*"

\* std::string::find(pat): 1-based position of the first occurrence, 0 = npos
Find(s, pat) ==
  LET hits == {i \in 1..Len(s) : i + Len(pat) - 1 <= Len(s)
                                 /\ SubSeq(s, i, i + Len(pat) - 1) = pat}
  IN IF hits = {} THEN 0 ELSE CHOOSE i \in hits : \A j \in hits : i <= j

\* std::string::rfind(ch): 1-based position of the last occurrence, 0 = npos
RFind(s, ch) ==
  LET hits == {i \in 1..Len(s) : s[i] = ch}
  IN IF hits = {} THEN 0 ELSE CHOOSE i \in hits : \A j \in hits : j <= i

\* s.substr(0, s.rfind('/')): everything before the last separator; the
\* whole string when there is none (substr(0, npos)).
BeforeLastSlash(s) ==
  IF RFind(s, Slash) = 0 THEN s ELSE SubSeq(s, 1, RFind(s, Slash) - 1)

\* boost::filesystem::path::filename()
Filename(s) ==
  IF RFind(s, Slash) = 0 THEN s
  ELSE IF RFind(s, Slash) = Len(s) THEN <<".">>
  ELSE SubSeq(s, RFind(s, Slash) + 1, Len(s))

\* boost::filesystem::path::parent_path()
ParentPath(s) ==
  IF RFind(s, Slash) = 0 THEN <<>>
  ELSE IF RFind(s, Slash) = 1 THEN <<Slash>>
  ELSE SubSeq(s, 1, RFind(s, Slash) - 1)

----------------------------------------------------------------------------
(* The file system the publisher watches: a directory /d holding a file    *)
(* /d/f and a subdirectory /d/n.                                           *)

P_d == <<Slash, "d">>
P_dS == <<Slash, "d", Slash>>
P_f == <<Slash, "d", Slash, "f">>
P_n == <<Slash, "d", Slash, "n">>
P_nS == <<Slash, "d", Slash, "n", Slash>>
P_dRec == <<Slash, "d", Slash, Star, Star>>
P_x == <<Slash, "x">>

Objs == {"d", "f", "n"}

\* The file-system object a path names ("none": no such object).
ObjOf(path) ==
  IF path \in {P_d, P_dS} THEN "d"
  ELSE IF path = P_f THEN "f"
  ELSE IF path \in {P_n, P_nS} THEN "n"
  ELSE "none"

IsDirObj(o) == o \in {"d", "n"}

\* Paths handed to addMonitor by a direct caller.
WatchPaths == {P_dS, P_f, P_x}

\* Names a record carries (event->name); <<>> is a record without a name.
EventNames == {<<>>, <<"f">>, <<"n">>}

----------------------------------------------------------------------------
(* State *)

VARIABLES
  subscriptions_,         \* the registry: sequence of subscription ids
  ctx,                    \* id -> INotifySubscriptionContext (with subscriber_name)
  descriptor_inosubctx_,  \* descriptor -> owning subscription id
  path_descriptors_,      \* path -> descriptor (sanity-check mode only)
  exclude_paths_,         \* the exclude set
  inotify_sanity_check,   \* the stricter mode flag
  kwd,                    \* kernel: object -> descriptor of its watch (0: none)
  nextWd,                 \* kernel: next descriptor it allocates
  exists,                 \* file system: object -> it exists
  ctime,                  \* file system: object -> st_ctime
  cpc,                    \* configure(): position of the reconfiguration path
  delete_subscriptions,   \* configure(): local vector of purged subscriptions
  purge_i,                \* configure(): position of the purge loop in it
  rpc,                    \* run(): position of the reader thread
  ec,                     \* run(): the event context being dispatched
  inotify_events_,        \* the capacity multiplier of the read
  last_overflow_,         \* time of the last reported overflow (-1: none)
  now,                    \* getUnixTime(): the clock, in seconds
  scratch_mutex_,         \* the thread holding the decode-buffer lock
  path_mutex_,            \* the thread holding the table lock
  subscription_lock_,     \* the thread holding the registry lock
  tpc,                    \* thread -> its position in run() / configure()
  last                    \* the last operation and what it did (history)

vars == <<subscriptions_, ctx, descriptor_inosubctx_, path_descriptors_,
          exclude_paths_, inotify_sanity_check, kwd, nextWd, exists, ctime,
          cpc, delete_subscriptions, purge_i, rpc, ec, inotify_events_,
          last_overflow_, now, scratch_mutex_, path_mutex_,
          subscription_lock_, tpc, last>>

----------------------------------------------------------------------------
(* std::map helpers *)

EmptyMap == <<>>

MapPut(f, k, v) == [x \in (DOMAIN f) \cup {k} |-> IF x = k THEN v ELSE f[x]]

MapErase(f, k) == [x \in (DOMAIN f) \ {k} |-> f[x]]

\* operator[] on a map of integers or times: absent keys read as 0
MapGet0(f, k) == IF k \in DOMAIN f THEN f[k] ELSE 0

\* A local of the code: x is computed once and F works on its value.
Bind(x, F(_)) == CHOOSE v \in {F(y) : y \in {x}} : TRUE

\* The keys of a map of descriptors in iteration (ascending) order.
RECURSIVE SortedKeys(_)
SortedKeys(ks) ==
  IF ks = {} THEN <<>>
  ELSE LET m == CHOOSE k \in ks : \A j \in ks : k <= j
       IN <<m>> \o SortedKeys(ks \ {m})

----------------------------------------------------------------------------
(* The tables an operation works on, gathered in one record:               *)
(*   own: descriptor_inosubctx_, ctx: the subscription contexts,           *)
(*   pd: path_descriptors_, kwd/nextWd: the kernel's watches,              *)
(*   rm: the descriptors passed to inotify_rm_watch by the operation,      *)
(*   add: the descriptors inotify_add_watch returned to it.                *)

Tables ==
  [own |-> descriptor_inosubctx_, ctx |-> ctx, pd |-> path_descriptors_,
   kwd |-> kwd, nextWd |-> nextWd, rm |-> {}, add |-> {}]

isDirectory(path) ==
  ObjOf(path) # "none" /\ exists[ObjOf(path)] /\ IsDirObj(ObjOf(path))

\* ::inotify_add_watch: the descriptor of the object's watch (the same one
\* when the object is already watched, a fresh one otherwise), or -1.
inotify_add_watch(st, path) ==
  LET o == ObjOf(path) IN
  IF o = "none" \/ ~exists[o] THEN [wd |-> KFail, st |-> st]
  ELSE IF st.kwd[o] # 0
    THEN [wd |-> st.kwd[o], st |-> [st EXCEPT !.add = st.add \cup {st.kwd[o]}]]
  ELSE IF st.nextWd <= MaxWd
    THEN [wd |-> st.nextWd,
          st |-> [st EXCEPT !.kwd[o] = st.nextWd, !.nextWd = st.nextWd + 1,
                            !.add = st.add \cup {st.nextWd}]]
  ELSE [wd |-> KFail, st |-> st]

\* ::inotify_rm_watch
inotify_rm_watch(st, watch) ==
  [st EXCEPT !.kwd = [o \in Objs |-> IF st.kwd[o] = watch THEN 0 ELSE st.kwd[o]],
             !.rm = st.rm \cup {watch}]

\* lines 352-360: the entry the descriptor had is retired
Retire(s0, watch) ==
  IF watch \in DOMAIN s0.own
  THEN Bind(s0.own[watch], LAMBDA ino_sc :
         [s0 EXCEPT
            !.pd = IF inotify_sanity_check
                   THEN MapErase(s0.pd,
                          IF watch \in DOMAIN s0.ctx[ino_sc].descriptor_paths_
                          THEN s0.ctx[ino_sc].descriptor_paths_[watch]
                          ELSE <<>>)
                   ELSE s0.pd,
            !.ctx[ino_sc].descriptor_paths_ =
                MapErase(s0.ctx[ino_sc].descriptor_paths_, watch),
            !.own = MapErase(s0.own, watch)])
  ELSE s0

\* lines 362-368: the descriptor is recorded for the subscription
Track(s1, watch, path, isc) ==
  [s1 EXCEPT
     !.ctx[isc].descriptor_paths_ =
         MapPut(s1.ctx[isc].descriptor_paths_, watch, path),
     !.own = MapPut(s1.own, watch, isc),
     !.pd = IF inotify_sanity_check THEN MapPut(s1.pd, path, watch)
            ELSE s1.pd]

\* addMonitor, the block under path_mutex_ (lines 343-369)
AddMonitorLocked(st, path, isc, add_watch) ==
  Bind(inotify_add_watch(st, path), LAMBDA k :
    IF add_watch /\ k.wd = KFail
    THEN [st |-> k.st, rc |-> FALSE, watch |-> k.wd, done |-> FALSE]
    ELSE Bind(Retire(k.st, k.wd), LAMBDA s1 :
           [st |-> Track(s1, k.wd, path, isc), rc |-> TRUE, watch |-> k.wd,
            done |-> TRUE]))

\* listDirectoriesInDirectory(path, children, true), each child canonicalized
\* and given a trailing separator (lines 372-378)
Children(path) ==
  IF ObjOf(path) = "d" /\ exists["n"] THEN <<P_nS>> ELSE <<>>

\* The default of addMonitor's and monitorSubscription's add_watch parameter
\* (declared in inotify.h).
DefaultAddWatch == TRUE

RECURSIVE addMonitor(_, _, _, _, _)
RECURSIVE AddChildren(_, _, _)

\* addMonitor (lines 338-384)
addMonitor(st, path, isc, recursive, add_watch) ==
  Bind(AddMonitorLocked(st, path, isc, add_watch), LAMBDA r :
    IF ~r.rc THEN [st |-> r.st, rc |-> FALSE]
    ELSE IF recursive /\ isDirectory(path)
      THEN [st |-> AddChildren(r.st, Children(path), isc), rc |-> TRUE]
    ELSE [st |-> r.st, rc |-> TRUE])

\* the loop over the children (lines 377-380)
AddChildren(st, children, isc) ==
  IF children = <<>> THEN st
  ELSE Bind(addMonitor(st, Head(children), isc, FALSE, DefaultAddWatch),
            LAMBDA r : AddChildren(r.st, Tail(children), isc))

\* A removeMonitor that always defers the cleanup of the owner's
\* descriptor_paths_ (it takes the batch path whatever batch_del is).
removeMonitor_Deferred(st, watch, force, batch_del) ==
  IF watch \notin DOMAIN st.own THEN [st |-> st, rc |-> FALSE]
  ELSE Bind([st EXCEPT !.own = MapErase(st.own, watch)], LAMBDA s1 :
         [st |-> IF force THEN inotify_rm_watch(s1, watch) ELSE s1,
          rc |-> TRUE])

\* A removeMonitor that passes an unknown descriptor to the kernel when the
\* caller forces the removal.
removeMonitor_ForceUnknown(st, watch, force, batch_del) ==
  IF watch \notin DOMAIN st.own
  THEN [st |-> IF force THEN inotify_rm_watch(st, watch) ELSE st, rc |-> FALSE]
  ELSE Bind(st.own[watch], LAMBDA isc :
         Bind([st EXCEPT
                 !.own = MapErase(st.own, watch),
                 !.ctx[isc].descriptor_paths_ =
                     IF ~batch_del
                     THEN MapErase(st.ctx[isc].descriptor_paths_, watch)
                     ELSE st.ctx[isc].descriptor_paths_],
              LAMBDA s1 :
           [st |-> IF force THEN inotify_rm_watch(s1, watch) ELSE s1,
            rc |-> TRUE]))

\* removeMonitor (lines 386-413)
removeMonitor(st, watch, force, batch_del) ==
  IF watch \notin DOMAIN st.own THEN [st |-> st, rc |-> FALSE]
  ELSE
    Bind(st.own[watch], LAMBDA isc :
      \* descriptor_paths_[watch] inserts an empty path when absent
      Bind(IF inotify_sanity_check
              /\ watch \notin DOMAIN st.ctx[isc].descriptor_paths_
           THEN MapPut(st.ctx[isc].descriptor_paths_, watch, <<>>)
           ELSE st.ctx[isc].descriptor_paths_, LAMBDA dp :
        Bind([st EXCEPT
                !.own = MapErase(st.own, watch),
                !.pd = IF inotify_sanity_check THEN MapErase(st.pd, dp[watch])
                       ELSE st.pd,
                !.ctx[isc].descriptor_paths_ =
                    IF ~batch_del THEN MapErase(dp, watch) ELSE dp],
             LAMBDA s1 :
          [st |-> IF force THEN inotify_rm_watch(s1, watch) ELSE s1,
           rc |-> TRUE])))

----------------------------------------------------------------------------
(* Event decoding and dispatch *)

ActionBits == {IN_ACCESS, IN_ATTRIB, IN_CLOSE_WRITE, IN_CREATE, IN_DELETE,
               IN_MODIFY, IN_MOVED_FROM, IN_MOVED_TO, IN_OPEN}

\* kMaskActions, a std::map<int, std::string> (lines 36-46)
kMaskActions(bit) ==
  CASE bit = IN_ACCESS -> "ACCESSED"
    [] bit = IN_ATTRIB -> "ATTRIBUTES_MODIFIED"
    [] bit = IN_CLOSE_WRITE -> "UPDATED"
    [] bit = IN_CREATE -> "CREATED"
    [] bit = IN_DELETE -> "DELETED"
    [] bit = IN_MODIFY -> "UPDATED"
    [] bit = IN_MOVED_FROM -> "MOVED_FROM"
    [] bit = IN_MOVED_TO -> "MOVED_TO"
    [] bit = IN_OPEN -> "OPENED"

\* A loop in which the last key the mask holds decides.
ActionOf_Last(mask) ==
  IF mask \cap ActionBits = {} THEN ""
  ELSE kMaskActions(CHOOSE b \in mask \cap ActionBits :
                      \A c \in mask \cap ActionBits : c <= b)

\* The loop over kMaskActions (lines 296-301): a std::map is iterated in
\* ascending key order, and the first key the mask holds decides.
ActionOf(mask) ==
  LET hits == mask \cap ActionBits IN
  IF hits = {} THEN ""
  ELSE kMaskActions(CHOOSE b \in hits : \A c \in hits : b <= c)

NoEc ==
  [wd |-> 0, mask |-> {}, path |-> <<>>, isub_ctx |-> 0, action |-> "",
   thrown |-> FALSE]

\* createEventContextFrom (lines 273-303); event = [wd, mask, name].
\* A blank context (isub_ctx 0, no action) when the descriptor is unknown;
\* descriptor_paths_.at (line 287) throws when the owner holds no path for
\* the descriptor.
createEventContextFrom(st, event) ==
  IF event.wd \notin DOMAIN st.own
  THEN [NoEc EXCEPT !.wd = event.wd, !.mask = event.mask]
  ELSE IF event.wd \notin DOMAIN st.ctx[st.own[event.wd]].descriptor_paths_
  THEN [NoEc EXCEPT !.wd = event.wd, !.mask = event.mask, !.thrown = TRUE]
  ELSE [wd |-> event.wd, mask |-> event.mask,
        path |-> st.ctx[st.own[event.wd]].descriptor_paths_[event.wd]
                   \o event.name,
        isub_ctx |-> st.own[event.wd],
        action |-> ActionOf(event.mask),
        thrown |-> FALSE]

\* exclude_paths_.find(path): the path is present in the set
ExcludeFind(set, path) == path \in set

\* A shouldFire that looks up the full path of the record only.
shouldFire_FullPathOnly(st, sc, e) ==
  IF sc # e.isub_ctx
    THEN [st |-> st, fire |-> FALSE, installed |-> FALSE]
  ELSE IF st.ctx[sc].mask # {} /\ e.mask \cap st.ctx[sc].mask = {}
    THEN [st |-> st, fire |-> FALSE, installed |-> FALSE]
  ELSE
    Bind(st.ctx[sc].recursive /\ e.action = "CREATED" /\ isDirectory(e.path),
         LAMBDA lazy :
      [st |-> IF lazy
              THEN addMonitor(st, e.path \o <<Slash>>, sc, TRUE,
                              DefaultAddWatch).st
              ELSE st,
       fire |-> ~(exclude_paths_ # {} /\ ExcludeFind(exclude_paths_, e.path)),
       installed |-> lazy])

\* A shouldFire that applies the exclude filter before the lazy install.
shouldFire_ExcludeFirst(st, sc, e) ==
  IF sc # e.isub_ctx
    THEN [st |-> st, fire |-> FALSE, installed |-> FALSE]
  ELSE IF st.ctx[sc].mask # {} /\ e.mask \cap st.ctx[sc].mask = {}
    THEN [st |-> st, fire |-> FALSE, installed |-> FALSE]
  ELSE IF exclude_paths_ # {}
          /\ (ExcludeFind(exclude_paths_, BeforeLastSlash(e.path))
              \/ ExcludeFind(exclude_paths_, e.path))
    THEN [st |-> st, fire |-> FALSE, installed |-> FALSE]
  ELSE
    Bind(st.ctx[sc].recursive /\ e.action = "CREATED" /\ isDirectory(e.path),
         LAMBDA lazy :
      [st |-> IF lazy
              THEN addMonitor(st, e.path \o <<Slash>>, sc, TRUE,
                              DefaultAddWatch).st
              ELSE st,
       fire |-> TRUE,
       installed |-> lazy])

\* shouldFire (lines 305-336), with the watch it may install
shouldFire(st, sc, e) ==
  IF sc # e.isub_ctx
    THEN [st |-> st, fire |-> FALSE, installed |-> FALSE]
  ELSE IF st.ctx[sc].mask # {} /\ e.mask \cap st.ctx[sc].mask = {}
    THEN [st |-> st, fire |-> FALSE, installed |-> FALSE]
  ELSE
    Bind(st.ctx[sc].recursive /\ e.action = "CREATED" /\ isDirectory(e.path),
         LAMBDA lazy :
      [st |-> IF lazy
              THEN addMonitor(st, e.path \o <<Slash>>, sc, TRUE,
                              DefaultAddWatch).st
              ELSE st,
       fire |-> ~(exclude_paths_ # {}
                  /\ (ExcludeFind(exclude_paths_, BeforeLastSlash(e.path))
                      \/ ExcludeFind(exclude_paths_, e.path))),
       installed |-> lazy])

RECURSIVE fire(_, _, _)
\* EventPublisher::fire: every subscription of the registry whose
\* shouldFire accepts the context receives it.
fire(st, subs, e) ==
  IF subs = <<>> THEN [st |-> st, emitted |-> {}, installed |-> {}]
  ELSE Bind(shouldFire(st, Head(subs), e), LAMBDA r :
         Bind(fire(r.st, Tail(subs), e), LAMBDA rest :
           [st |-> rest.st,
            emitted |-> (IF r.fire THEN {Head(subs)} ELSE {})
                        \cup rest.emitted,
            installed |-> (IF r.installed THEN {Head(subs)} ELSE {})
                          \cup rest.installed]))

----------------------------------------------------------------------------
(* Path resolution *)

\* stat(path): the object's change time, 0 when stat fails
StatCtime(path) ==
  IF ObjOf(path) = "none" \/ ~exists[ObjOf(path)] THEN 0
  ELSE ctime[ObjOf(path)]

\* needMonitoring (lines 70-90)
needMonitoring(st, path, isc, add_watch) ==
  IF StatCtime(path) = 0 THEN [st |-> st, rc |-> FALSE]
  ELSE IF MapGet0(st.ctx[isc].path_sc_time_, path) # StatCtime(path)
    THEN Bind(addMonitor(st, path, isc, st.ctx[isc].recursive, add_watch),
              LAMBDA r :
           IF r.rc
           THEN [st |-> [r.st EXCEPT !.ctx[isc].path_sc_time_ =
                           MapPut(r.st.ctx[isc].path_sc_time_, path,
                                  StatCtime(path))],
                 rc |-> TRUE]
           ELSE [st |-> r.st, rc |-> FALSE])
  ELSE [st |-> st, rc |-> TRUE]

RECURSIVE WildMatch(_, _)
\* fnmatch with '*' matching any run of characters other than '/'
WildMatch(pat, s) ==
  IF pat = <<>> THEN s = <<>>
  ELSE IF Head(pat) = Star
    THEN WildMatch(Tail(pat), s)
         \/ (s # <<>> /\ Head(s) # Slash /\ WildMatch(pat, Tail(s)))
  ELSE s # <<>> /\ Head(s) = Head(pat) /\ WildMatch(Tail(pat), Tail(s))

\* resolveFilePattern: the existing paths a pattern matches, directories
\* with a trailing separator
resolveFilePattern(pattern) ==
  (IF exists["d"] /\ WildMatch(pattern, P_dS) THEN <<P_dS>> ELSE <<>>)
  \o (IF exists["f"] /\ WildMatch(pattern, P_f) THEN <<P_f>> ELSE <<>>)
  \o (IF exists["n"] /\ WildMatch(pattern, P_nS) THEN <<P_nS>> ELSE <<>>)

RECURSIVE NeedMonitoringAll(_, _, _, _)
\* the loop over the resolved paths (lines 115-117)
NeedMonitoringAll(st, paths, isc, add_watch) ==
  IF paths = <<>> THEN st
  ELSE Bind(needMonitoring(st, Head(paths), isc, add_watch), LAMBDA r :
         NeedMonitoringAll(r.st, Tail(paths), isc, add_watch))

\* lines 95-99: a trailing "**" is cut off the pattern and makes the
\* subscription recursive
Discover(st, sc) ==
  Bind(Find(st.ctx[sc].path, <<Star, Star>>), LAMBDA rec :
    IF rec # 0
    THEN [st EXCEPT !.ctx[sc].path = SubSeq(st.ctx[sc].path, 1, rec - 1),
                    !.ctx[sc].recursive = TRUE]
    ELSE st)

\* lines 101-107: the path the resolution starts from
Discovered(path) ==
  IF Find(path, <<Star>>) # 0 /\ Find(Filename(path), <<Star>>) # 0
  THEN ParentPath(path) \o <<Slash>>
  ELSE path

\* monitorSubscription (lines 92-128)
monitorSubscription(st, sc, add_watch) ==
  Bind(Discover(st, sc), LAMBDA s1 :
    Bind(Discovered(s1.ctx[sc].path), LAMBDA discovered :
      IF Find(s1.ctx[sc].path, <<Star>>) # 0 /\ Find(discovered, <<Star>>) # 0
      THEN Bind([s1 EXCEPT !.ctx[sc].recursive_match = s1.ctx[sc].recursive],
                LAMBDA s2 :
             [st |-> NeedMonitoringAll(s2, resolveFilePattern(discovered), sc,
                                       add_watch),
              rc |-> TRUE])
      ELSE IF isDirectory(discovered) /\ discovered[Len(discovered)] # Slash
        THEN Bind([s1 EXCEPT !.ctx[sc].path = s1.ctx[sc].path \o <<Slash>>],
                  LAMBDA s2 :
               needMonitoring(s2, discovered \o <<Slash>>, sc, add_watch))
      ELSE needMonitoring(s1, discovered, sc, add_watch)))

RECURSIVE MonitorAll(_, _)
\* the loop over the registry at the end of configure (lines 181-187)
MonitorAll(st, subs) ==
  IF subs = <<>> THEN st
  ELSE Bind(monitorSubscription(st, Head(subs), DefaultAddWatch), LAMBDA r :
         MonitorAll(r.st, Tail(subs)))

RECURSIVE RemoveAll_Table(_, _)
\* A purge loop that walks the whole Watch Table instead of the purged
\* subscription's descriptors.
RemoveAll_Table(st, watches) ==
  IF DOMAIN st.own = {} THEN st
  ELSE Bind(removeMonitor(st, CHOOSE w \in DOMAIN st.own : TRUE, TRUE, TRUE),
            LAMBDA r : RemoveAll_Table(r.st, watches))

RECURSIVE RemoveAll(_, _)
\* the purge loop over one subscription's descriptor_paths_ (lines 172-174)
RemoveAll(st, watches) ==
  IF watches = <<>> THEN st
  ELSE Bind(removeMonitor(st, Head(watches), TRUE, TRUE), LAMBDA r :
         RemoveAll(r.st, Tail(watches)))

----------------------------------------------------------------------------
(* The registry *)

\* operator== of two subscription contexts: the same pattern, mask and
\* recursive flag
ContextEq(a, b) ==
  a.path = b.path /\ a.mask = b.mask /\ a.recursive = b.recursive

\* The subscription declarations the subscribers make: [path, mask, recursive]
D_rec == [path |-> P_dRec, mask |-> {}, recursive |-> FALSE]
D_dir == [path |-> P_d, mask |-> {IN_MODIFY}, recursive |-> FALSE]

Decls == {D_rec, D_dir}

Subscribers == {"a", "b"}

\* The subscriber that makes each declaration
SubscriberOf(decl) == IF decl = D_dir THEN "b" ELSE "a"

NewContext(decl, subscriber) ==
  [path |-> decl.path, mask |-> decl.mask, recursive |-> decl.recursive,
   recursive_match |-> FALSE, mark_for_deletion |-> FALSE,
   descriptor_paths_ |-> EmptyMap, path_sc_time_ |-> EmptyMap,
   subscriber_name |-> subscriber,
   declared |-> decl]   \* history: the declaration the context was made from

\* The first registry entry equal to the received context, 0 when none
\* (the loop of addSubscription, lines 431-442)
FirstEqual(subs, cx, decl) ==
  LET hits == {i \in 1..Len(subs) : ContextEq(decl, cx[subs[i]])}
  IN IF hits = {} THEN 0
     ELSE subs[CHOOSE i \in hits : \A j \in hits : i <= j]

----------------------------------------------------------------------------
(* Initial state: setUp succeeded, nothing subscribed, nothing watched *)

\* No thread holds the lock
Free == "free"

\* The threads: the reader loop and the reconfiguration path
Threads == {"reader", "config"}

\* A thread outside run() and configure()
Idle == [at |-> <<>>, n |-> 0]

\* The state setUp leaves, but for the mode flag and the capacity multiplier
Constructed ==
  /\ last_overflow_ = 0 - 1
  /\ now = 0
  /\ scratch_mutex_ = Free
  /\ path_mutex_ = Free
  /\ subscription_lock_ = Free
  /\ tpc = [t \in Threads |-> Idle]
  /\ subscriptions_ = <<>>
  /\ ctx = <<>>
  /\ descriptor_inosubctx_ = EmptyMap
  /\ path_descriptors_ = EmptyMap
  /\ exclude_paths_ = {}
  /\ kwd = [o \in Objs |-> 0]
  /\ nextWd = 1
  /\ exists = [o \in Objs |-> o # "n"]
  /\ ctime = [o \in Objs |-> 1]
  /\ cpc = "idle"
  /\ delete_subscriptions = <<>>
  /\ purge_i = 1
  /\ rpc = "idle"
  /\ ec = NoEc
  /\ last = [op |-> "init"]

\* The multiplier's initializer is declared with the class; a specification
\* that reads no overflow record starts it at the smallest power of two
Init ==
  /\ Constructed
  /\ inotify_sanity_check = FALSE
  /\ inotify_events_ = 1

\* The publisher in either mode: the stricter mode is switched on before
\* the first operation
InitAnyMode ==
  /\ Constructed
  /\ inotify_sanity_check \in BOOLEAN
  /\ inotify_events_ = 1

\* The tables become those an operation leaves.
Apply(st) ==
  /\ descriptor_inosubctx_' = st.own
  /\ ctx' = st.ctx
  /\ path_descriptors_' = st.pd
  /\ kwd' = st.kwd
  /\ nextWd' = st.nextWd

tableVars == <<descriptor_inosubctx_, ctx, path_descriptors_, kwd, nextWd>>
fsVars == <<exists, ctime>>
cfgVars == <<cpc, delete_subscriptions, purge_i>>
readerVars == <<rpc, ec>>
overflowVars == <<inotify_events_, last_overflow_, now>>
lockVars == <<scratch_mutex_, path_mutex_, subscription_lock_, tpc>>

----------------------------------------------------------------------------
(* Registry operations *)

\* addSubscription (lines 427-446)
Subscribe(decls) ==
  /\ cpc = "idle"
  /\ \E decl \in decls :
       LET hit == FirstEqual(subscriptions_, ctx, decl)
           subscriber == SubscriberOf(decl) IN
       IF hit # 0
       THEN /\ ctx' = IF ctx[hit].mark_for_deletion
                      THEN [ctx EXCEPT ![hit].mark_for_deletion = FALSE]
                      ELSE ctx
            /\ subscriptions_' = subscriptions_
            /\ last' = [op |-> "addSubscription", decl |-> decl,
                        status |-> IF ctx[hit].mark_for_deletion THEN 0 ELSE 1]
       ELSE /\ Len(ctx) < MaxSubs
            /\ ctx' = Append(ctx, NewContext(decl, subscriber))
            /\ subscriptions_' = Append(subscriptions_, Len(ctx) + 1)
            /\ last' = [op |-> "addSubscription", decl |-> decl,
                        status |-> 0]
  /\ UNCHANGED <<descriptor_inosubctx_, path_descriptors_, kwd, nextWd,
                 exclude_paths_, inotify_sanity_check, overflowVars,
                 lockVars, fsVars, cfgVars,
                 readerVars>>

AddSubscription == Subscribe(Decls)

\* removeSubscriptions (lines 415-425)
RemoveSubscriptions ==
  /\ cpc = "idle"
  /\ \E subscriber \in Subscribers :
       /\ ctx' = [i \in DOMAIN ctx |->
                    IF (\E k \in 1..Len(subscriptions_) : subscriptions_[k] = i)
                       /\ ctx[i].subscriber_name = subscriber
                    THEN [ctx[i] EXCEPT !.mark_for_deletion = TRUE]
                    ELSE ctx[i]]
       /\ last' = [op |-> "removeSubscriptions", subscriber |-> subscriber]
  /\ UNCHANGED <<subscriptions_, descriptor_inosubctx_, path_descriptors_, kwd,
                 nextWd, exclude_paths_, inotify_sanity_check, overflowVars,
                 lockVars, fsVars, cfgVars,
                 readerVars>>

----------------------------------------------------------------------------
(* Direct calls of the Watch Table operations *)

InRegistry(i) == \E k \in 1..Len(subscriptions_) : subscriptions_[k] = i

\* The path the Watch Table records for a live descriptor
PathOf(watch) ==
  ctx[descriptor_inosubctx_[watch]].descriptor_paths_[watch]

\* The paths of the live descriptors
TrackedPaths ==
  {ctx[descriptor_inosubctx_[w]].descriptor_paths_[w] :
     w \in {v \in DOMAIN descriptor_inosubctx_ :
              v \in DOMAIN ctx[descriptor_inosubctx_[v]].descriptor_paths_}}

\* addMonitor called on a registered subscription
AddMonitorCall(paths) ==
  /\ cpc = "idle" /\ rpc = "idle"
  /\ \E path \in paths, isc \in DOMAIN ctx, recursive \in BOOLEAN,
        add_watch \in BOOLEAN :
       /\ InRegistry(isc)
       /\ \E k \in {AddMonitorLocked(Tables, path, isc, add_watch)},
             r \in {addMonitor(Tables, path, isc, recursive, add_watch)} :
             /\ Apply(r.st)
             /\ last' = [op |-> "addMonitor", path |-> path, isc |-> isc,
                         add_watch |-> add_watch, watch |-> k.watch,
                         tracked |-> path \in TrackedPaths,
                         rc |-> r.rc, rm |-> {}, add |-> r.st.add]
  /\ UNCHANGED <<subscriptions_, exclude_paths_, inotify_sanity_check, overflowVars,
                 lockVars, fsVars,
                 cfgVars, readerVars>>

\* removeMonitor called on any descriptor.  The batch form on a tracked
\* descriptor belongs to configure's purge, which does the deferred cleanup.
RemoveMonitorCall ==
  /\ cpc = "idle" /\ rpc = "idle"
  /\ \E watch \in (1..MaxWd) \cup {KFail}, force \in BOOLEAN,
        batch_del \in BOOLEAN :
       /\ batch_del => watch \notin DOMAIN descriptor_inosubctx_
       /\ \E r \in {removeMonitor(Tables, watch, force, batch_del)} :
             /\ Apply(r.st)
             /\ last' = [op |-> "removeMonitor", watch |-> watch,
                         force |-> force, batch_del |-> batch_del,
                         rc |-> r.rc, rm |-> r.st.rm, add |-> {}]
  /\ UNCHANGED <<subscriptions_, exclude_paths_, inotify_sanity_check, overflowVars,
                 lockVars, fsVars,
                 cfgVars, readerVars>>

\* isPathMonitored (lines 448-464)
isPathMonitored(path) ==
  IF ~isDirectory(path)
  THEN IF path \in DOMAIN path_descriptors_ THEN TRUE
       ELSE (ParentPath(path) \o <<Slash>>) \in DOMAIN path_descriptors_
  ELSE path \in DOMAIN path_descriptors_

\* Paths a caller asks isPathMonitored about
QueryPaths == {P_d, P_dS, P_f, P_n, P_nS, P_x}

\* isPathMonitored called on any path
IsPathMonitoredCall ==
  /\ cpc = "idle" /\ rpc = "idle"
  /\ \E path \in QueryPaths :
       last' = [op |-> "isPathMonitored", path |-> path,
                rc |-> isPathMonitored(path)]
  /\ UNCHANGED <<subscriptions_, tableVars, exclude_paths_,
                 inotify_sanity_check, overflowVars,
                 lockVars, fsVars, cfgVars, readerVars>>

----------------------------------------------------------------------------
(* The reader: one record of a run() tick, decoded and dispatched          *)

\* The records the kernel delivers: [wd, mask, name]
InvalidationMasks == {{IN_IGNORED}, {IN_MOVE_SELF}, {IN_DELETE_SELF}}

\* the kernel invalidates a watch
InvalidationEvents == [wd : 1..MaxWd, mask : InvalidationMasks, name : {<<>>}]

\* /d/n is created in a watched directory, /d/f is modified there
DirEvents ==
  [wd : 1..MaxWd, mask : {{IN_CREATE}}, name : {<<"n">>}]
  \cup [wd : 1..MaxWd, mask : {{IN_MODIFY}}, name : {<<"f">>}]

\* The branch of run() a record takes (lines 248-260)
KindOf(mask) ==
  IF IN_IGNORED \in mask THEN "ignored"
  ELSE IF IN_MOVE_SELF \in mask THEN "move_self"
  ELSE IF IN_DELETE_SELF \in mask THEN "delete_self"
  ELSE "event"

\* A reader that never asks for the kernel removal.
ForceOf_Never(kind) == FALSE

\* The force flag run() passes to removeMonitor for each kind (lines 251-259)
ForceOf(kind) == kind = "move_self"

\* run(), lines 245-268, for one record
RunRecord(events) ==
  /\ cpc = "idle" /\ rpc = "idle"
  /\ \E event \in events :
       LET kind == KindOf(event.mask)
       IN IF kind # "event"
          THEN \E r \in {removeMonitor(Tables, event.wd, ForceOf(kind), FALSE)} :
                  /\ Apply(r.st)
                  /\ last' = [op |-> "run", event |-> event, rc |-> r.rc,
                              rm |-> r.st.rm, add |-> {}, path |-> <<>>,
                              owner |-> 0, emitted |-> {}, installed |-> {}]
          ELSE \E e \in {createEventContextFrom(Tables, event)} :
               \E f \in {IF e.action # "" THEN fire(Tables, subscriptions_, e)
                          ELSE [st |-> Tables, emitted |-> {},
                                installed |-> {}]} :
                  /\ Apply(f.st)
                  /\ last' = [op |-> "run", event |-> event,
                              rc |-> e.isub_ctx # 0, rm |-> f.st.rm,
                              add |-> f.st.add, path |-> e.path,
                              owner |-> e.isub_ctx,
                              emitted |-> f.emitted, installed |-> f.installed]
  /\ UNCHANGED <<subscriptions_, exclude_paths_, inotify_sanity_check, overflowVars,
                 lockVars, fsVars,
                 cfgVars, readerVars>>

----------------------------------------------------------------------------
(* configure (lines 147-188), in the order of its steps.  The kernel       *)
(* handle is valid: setUp succeeded and tearDown has not run.              *)

\* The exclude_paths configuration buildExcludePathsSet reads
ExcludeConfigs == {{}, {P_d}, {P_n}}

\* no exclude_paths are configured
NoExcludes == {{}}

IsMarked(i) == ctx[i].mark_for_deletion
NotMarked(i) == ~ctx[i].mark_for_deletion

SeqSet(q) == {q[i] : i \in 1..Len(q)}

\* lines 153-168: the marked subscriptions leave the registry
CfgStart ==
  /\ cpc = "idle"
  /\ delete_subscriptions' = SelectSeq(subscriptions_, IsMarked)
  /\ subscriptions_' = SelectSeq(subscriptions_, NotMarked)
  /\ purge_i' = 1
  /\ cpc' = "purge"
  /\ last' = [op |-> "configure", step |-> "start", rm |-> {}, add |-> {}]
  /\ UNCHANGED <<tableVars, exclude_paths_, inotify_sanity_check, overflowVars,
                 lockVars, fsVars,
                 readerVars>>

\* lines 170-174: removeMonitor on every descriptor of one purged subscription
CfgPurge ==
  /\ cpc = "purge"
  /\ purge_i <= Len(delete_subscriptions)
  /\ \E sub \in {delete_subscriptions[purge_i]} :
     \E st \in {RemoveAll(Tables,
                          SortedKeys(DOMAIN ctx[sub].descriptor_paths_))} :
        /\ Apply(st)
        /\ last' = [op |-> "configure", step |-> "purge", sub |-> sub,
                    rm |-> st.rm, add |-> {}]
  /\ cpc' = "clear"
  /\ UNCHANGED <<subscriptions_, exclude_paths_, inotify_sanity_check, overflowVars,
                 lockVars, fsVars,
                 delete_subscriptions, purge_i, readerVars>>

\* line 175: descriptor_paths_.clear()
CfgClear ==
  /\ cpc = "clear"
  /\ ctx' = [ctx EXCEPT
               ![delete_subscriptions[purge_i]].descriptor_paths_ = EmptyMap]
  /\ purge_i' = purge_i + 1
  /\ cpc' = "purge"
  /\ last' = [op |-> "configure", step |-> "clear",
              sub |-> delete_subscriptions[purge_i], rm |-> {}, add |-> {}]
  /\ UNCHANGED <<subscriptions_, descriptor_inosubctx_, path_descriptors_, kwd,
                 nextWd, exclude_paths_, inotify_sanity_check, overflowVars,
                 lockVars, fsVars,
                 delete_subscriptions, readerVars>>

\* the purge loop is over
CfgPurged ==
  /\ cpc = "purge"
  /\ purge_i > Len(delete_subscriptions)
  /\ cpc' = "resolve"
  /\ last' = [op |-> "configure", step |-> "purged", rm |-> {}, add |-> {}]
  /\ UNCHANGED <<subscriptions_, tableVars, exclude_paths_,
                 inotify_sanity_check, overflowVars,
                 lockVars, fsVars, delete_subscriptions, purge_i,
                 readerVars>>

RECURSIVE PurgeAll(_, _)
\* lines 170-176, for every purged subscription
PurgeAll(st, subs) ==
  IF subs = <<>> THEN st
  ELSE Bind(RemoveAll(st, SortedKeys(DOMAIN st.ctx[Head(subs)].descriptor_paths_)),
            LAMBDA s1 :
         Bind([s1 EXCEPT !.ctx[Head(subs)].descriptor_paths_ = EmptyMap],
              LAMBDA s2 : PurgeAll(s2, Tail(subs))))

\* lines 153-176 in one step: the purge of a reconfiguration pass that no
\* other thread interleaves with
CfgPurgeAll ==
  /\ cpc = "idle" /\ rpc = "idle"
  /\ delete_subscriptions' = SelectSeq(subscriptions_, IsMarked)
  /\ subscriptions_' = SelectSeq(subscriptions_, NotMarked)
  /\ \E st \in {PurgeAll(Tables, SelectSeq(subscriptions_, IsMarked))} :
        /\ Apply(st)
        /\ last' = [op |-> "configure", step |-> "purged", rm |-> st.rm,
                    add |-> {}]
  /\ cpc' = "resolve"
  /\ UNCHANGED <<exclude_paths_, inotify_sanity_check, overflowVars,
                 lockVars, fsVars, purge_i,
                 readerVars>>

\* lines 177-187: buildExcludePathsSet, then monitorSubscription on every
\* subscription of the registry
CfgResolve(configs) ==
  /\ cpc = "resolve"
  /\ \E excl \in configs : exclude_paths_' = excl
  /\ \E st \in {MonitorAll(Tables, subscriptions_)} :
        /\ Apply(st)
        /\ last' = [op |-> "configure", step |-> "end",
                    purged |-> SeqSet(delete_subscriptions), rm |-> {},
                    add |-> st.add]
  /\ delete_subscriptions' = <<>>
  /\ purge_i' = 1
  /\ cpc' = "idle"
  /\ UNCHANGED <<subscriptions_, inotify_sanity_check, overflowVars,
                 lockVars, fsVars, readerVars>>

----------------------------------------------------------------------------
(* The file system changes under the publisher *)

\* The file /d/f is replaced by a new file (deleted and created again)
\* within the second of its change time: the kernel drops the watch of the
\* old one.
EnvRecreate ==
  /\ kwd["f"] # 0
  /\ kwd' = [kwd EXCEPT !["f"] = 0]
  /\ last' = [op |-> "env"]
  /\ UNCHANGED <<subscriptions_, ctx, descriptor_inosubctx_, path_descriptors_,
                 nextWd, exists, ctime, exclude_paths_, inotify_sanity_check, overflowVars,
                 lockVars,
                 cfgVars, readerVars>>

\* The directory /d/n is removed: the kernel drops its watch.
EnvRmdir ==
  /\ exists["n"]
  /\ exists' = [exists EXCEPT !["n"] = FALSE]
  /\ kwd' = [kwd EXCEPT !["n"] = 0]
  /\ last' = [op |-> "env"]
  /\ UNCHANGED <<subscriptions_, ctx, descriptor_inosubctx_, path_descriptors_,
                 nextWd, ctime, exclude_paths_, inotify_sanity_check, overflowVars,
                 lockVars, cfgVars,
                 readerVars>>

\* The directory /d/n is created.
EnvMkdir ==
  /\ ~exists["n"]
  /\ exists' = [exists EXCEPT !["n"] = TRUE]
  /\ last' = [op |-> "env"]
  /\ UNCHANGED <<subscriptions_, ctx, descriptor_inosubctx_, path_descriptors_,
                 kwd, nextWd, ctime, exclude_paths_, inotify_sanity_check, overflowVars,
                 lockVars,
                 cfgVars, readerVars>>

\* The metadata of the directory /d changes: its change time advances.
EnvTouch ==
  /\ ctime["d"] < MaxCtime
  /\ ctime' = [ctime EXCEPT !["d"] = ctime["d"] + 1]
  /\ last' = [op |-> "env"]
  /\ UNCHANGED <<subscriptions_, ctx, descriptor_inosubctx_, path_descriptors_,
                 kwd, nextWd, exists, exclude_paths_, inotify_sanity_check, overflowVars,
                 lockVars,
                 cfgVars, readerVars>>

----------------------------------------------------------------------------
(* The reader thread step by step, as it runs beside the reconfiguration   *)
(* path: decode under path_mutex_ (lines 279-290), the registry lookup of  *)
(* fire, then shouldFire on the owning subscription.                       *)

\* run() decodes a record: createEventContextFrom (line 261); an exception
\* of the decoder leaves run() and ends the reader
RDecode(events) ==
  /\ rpc = "idle"
  /\ \E event \in events :
       /\ KindOf(event.mask) = "event"
       /\ ec' = createEventContextFrom(Tables, event)
       /\ rpc' = IF createEventContextFrom(Tables, event).thrown
                 THEN "thrown" ELSE "fire"
  /\ last' = [op |-> "reader", step |-> "decode", rm |-> {}, add |-> {}]
  /\ UNCHANGED <<subscriptions_, tableVars, exclude_paths_,
                 inotify_sanity_check, overflowVars,
                 lockVars, fsVars, cfgVars>>

\* fire (line 263) walks the registry; only the owning subscription passes
\* the first test of shouldFire (line 307)
RLookup ==
  /\ rpc = "fire"
  /\ rpc' = IF ec.action # "" /\ InRegistry(ec.isub_ctx) THEN "shouldFire"
            ELSE "idle"
  /\ last' = [op |-> "reader", step |-> "lookup", rm |-> {}, add |-> {}]
  /\ UNCHANGED <<subscriptions_, tableVars, exclude_paths_,
                 inotify_sanity_check, overflowVars,
                 lockVars, fsVars, cfgVars, ec>>

\* shouldFire on the owning subscription (lines 312-335)
RShouldFire ==
  /\ rpc = "shouldFire"
  /\ \E r \in {shouldFire(Tables, ec.isub_ctx, ec)} :
        /\ Apply(r.st)
        /\ last' = [op |-> "reader", step |-> "shouldFire", rm |-> {},
                    add |-> r.st.add, fire |-> r.fire,
                    installed |-> r.installed]
  /\ rpc' = "idle"
  /\ UNCHANGED <<subscriptions_, exclude_paths_, inotify_sanity_check, overflowVars,
                 lockVars, fsVars,
                 cfgVars, ec>>

----------------------------------------------------------------------------
(* The operations one after another: every handler runs to its end before *)
(* the next one starts.                                                    *)

Next ==
  \/ AddSubscription
  \/ RemoveSubscriptions
  \/ RunRecord(InvalidationEvents \cup DirEvents)
  \/ CfgPurgeAll
  \/ CfgResolve(NoExcludes)
  \/ EnvRmdir
  \/ EnvMkdir
  \/ EnvTouch

Spec == Init /\ [][Next]_vars

----------------------------------------------------------------------------
(* The Watch Table operations called one by one on registered              *)
(* subscriptions.                                                          *)

NextCall ==
  \/ AddSubscription
  \/ AddMonitorCall(WatchPaths)
  \/ RemoveMonitorCall
  \/ EnvRecreate
  \/ EnvMkdir

SpecCall == Init /\ [][NextCall]_vars

----------------------------------------------------------------------------
(* Dispatch under a configured exclude set.                                *)

NextExclude ==
  \/ AddSubscription
  \/ CfgPurgeAll
  \/ CfgResolve(ExcludeConfigs)
  \/ RunRecord(DirEvents)
  \/ EnvMkdir

SpecExclude == Init /\ [][NextExclude]_vars

----------------------------------------------------------------------------
(* The reader thread beside the reconfiguration path: the steps of         *)
(* configure and of a tick interleave.                                     *)

NextC ==
  \/ AddSubscription
  \/ RemoveSubscriptions
  \/ CfgStart
  \/ CfgPurge
  \/ CfgClear
  \/ CfgPurged
  \/ CfgResolve(NoExcludes)
  \/ RDecode(DirEvents)
  \/ RLookup
  \/ RShouldFire
  \/ EnvMkdir

SpecC == Init /\ [][NextC]_vars

----------------------------------------------------------------------------
(* Decoding records of every action mask.                                  *)

Masks == {m \in SUBSET ActionBits : Cardinality(m) <= MaxBits}

MaskEvents == [wd : 1..MaxWd, mask : Masks, name : {<<>>}]

NextMask ==
  \/ AddSubscription
  \/ CfgPurgeAll
  \/ CfgResolve(NoExcludes)
  \/ RDecode(MaskEvents)
  \/ RLookup

SpecMask == Init /\ [][NextMask]_vars

----------------------------------------------------------------------------
(* The Watch Table under every operation that works on it: direct installs *)
(* and removals, reconfiguration passes and reader ticks.                  *)

NextTable ==
  \/ AddSubscription
  \/ RemoveSubscriptions
  \/ AddMonitorCall({P_dS, P_f})
  \/ RemoveMonitorCall
  \/ RunRecord(InvalidationEvents \cup DirEvents)
  \/ CfgPurgeAll
  \/ CfgResolve(NoExcludes)
  \/ EnvMkdir

SpecTable == Init /\ [][NextTable]_vars

----------------------------------------------------------------------------
(* Claims *)

\* Every descriptor a table knows
AllDescriptors ==
  DOMAIN descriptor_inosubctx_
  \cup UNION {DOMAIN ctx[i].descriptor_paths_ : i \in DOMAIN ctx}

DescriptorsOf(path) ==
  {w \in DOMAIN descriptor_inosubctx_ :
     /\ w \in DOMAIN ctx[descriptor_inosubctx_[w]].descriptor_paths_
     /\ PathOf(w) = path}

\* C2: after a successful addMonitor on a path that was already tracked,
\* exactly one live descriptor of the Watch Table maps to that path.
C2_OneDescriptorPerPath ==
  (last.op = "addMonitor" /\ last.tracked /\ last.rc)
    => Cardinality(DescriptorsOf(last.path)) = 1

\* The Watch Table: owners, reverse index and every subscription's paths
WatchTable ==
  <<descriptor_inosubctx_, path_descriptors_,
    [i \in DOMAIN ctx |-> ctx[i].descriptor_paths_]>>

\* The registry subscriptions that are marked for deletion
Marked == {i \in SeqSet(subscriptions_) : ctx[i].mark_for_deletion}

\* removeSubscriptions marks that subscriber's registry entries and nothing
\* else
C3_MarkStep ==
  last'.op = "removeSubscriptions" =>
    /\ subscriptions_' = subscriptions_
    /\ WatchTable' = WatchTable
    /\ kwd' = kwd
    /\ \A i \in DOMAIN ctx :
         /\ [ctx'[i] EXCEPT !.mark_for_deletion = FALSE]
              = [ctx[i] EXCEPT !.mark_for_deletion = FALSE]
         /\ ctx'[i].mark_for_deletion =
              (ctx[i].mark_for_deletion
               \/ (InRegistry(i)
                   /\ ctx[i].subscriber_name = last'.subscriber))

\* the purge of a configure pass removes the descriptors of the marked
\* subscriptions, with a kernel removal for each, and no other
C3_PurgeStep ==
  (last'.op = "configure" /\ last'.step = "purged") =>
    /\ last'.rm = {wd \in DOMAIN descriptor_inosubctx_ :
                     descriptor_inosubctx_[wd] \in Marked}
    /\ \A wd \in DOMAIN descriptor_inosubctx_ :
         IF descriptor_inosubctx_[wd] \in Marked
         THEN wd \notin DOMAIN descriptor_inosubctx_'
         ELSE /\ wd \in DOMAIN descriptor_inosubctx_'
              /\ descriptor_inosubctx_'[wd] = descriptor_inosubctx_[wd]
              /\ wd \in DOMAIN ctx'[descriptor_inosubctx_[wd]].descriptor_paths_
              /\ ctx'[descriptor_inosubctx_[wd]].descriptor_paths_[wd]
                   = PathOf(wd)
              /\ \A o \in Objs : kwd[o] = wd => kwd'[o] = wd

\* C3: removeSubscriptions(subscriber) only sets mark_for_deletion on that
\* subscriber's subscriptions and changes neither the registry nor the
\* Watch Table; the purge step of the following configure pass removes
\* exactly the descriptors owned by the marked subscriptions and issues the
\* kernel removal only for those: every other descriptor keeps its entry,
\* path, owner and kernel watch.
C3_PurgeExactlyMarked == [][C3_MarkStep /\ C3_PurgeStep]_vars

\* C3 witness: a purge has removed the descriptor of a marked subscription
\* and left a descriptor of another subscription in the table.
C3_Witness ==
  /\ last.op = "configure" /\ last.step = "purged"
  /\ last.rm # {}
  /\ DOMAIN descriptor_inosubctx_ # {}
  /\ \E i \in DOMAIN ctx : ~InRegistry(i) /\ ctx[i].mark_for_deletion

\* The reader has decoded an invalidation record of a tracked descriptor
InvalidationStep ==
  /\ last'.op = "run"
  /\ KindOf(last'.event.mask) # "event"
  /\ last'.event.wd \in DOMAIN descriptor_inosubctx_

\* the entry of the record's descriptor is gone from the Watch Table
EntryRemoved ==
  /\ last'.event.wd \notin DOMAIN descriptor_inosubctx_'
  /\ \A i \in DOMAIN ctx :
       last'.event.wd \notin DOMAIN ctx'[i].descriptor_paths_

\* a descriptor enters the Watch Table only when an install call returns it
OnlyInstallWatches ==
  \A wd \in DOMAIN descriptor_inosubctx_' :
    wd \notin DOMAIN descriptor_inosubctx_ => wd \in last'.add

\* C6, as stated: on an invalidation record (ignored, self-moved or
\* self-deleted) of a tracked descriptor the entry is removed and no kernel
\* removal call is issued, for each of the three kinds; a removed descriptor
\* is watched again only after an install call returned it.
C6_NoKernelRemoval ==
  [][/\ InvalidationStep => (EntryRemoved /\ last'.rm = {})
     /\ OnlyInstallWatches]_vars

\* C6, amended: on an invalidation record of a tracked descriptor the entry
\* is removed; no kernel removal call is issued for an ignored or a
\* self-deleted record, and inotify_rm_watch is issued for the descriptor of
\* a self-moved record; a removed descriptor is watched again only after an
\* install call returned it.
C6_KernelRemovalOnMoveSelf ==
  [][/\ InvalidationStep =>
          /\ EntryRemoved
          /\ last'.rm = IF KindOf(last'.event.mask) = "move_self"
                         THEN {last'.event.wd} ELSE {}
     /\ OnlyInstallWatches]_vars

\* C6 witness: the reader has handled a self-moved record of a tracked
\* descriptor.
C6_Witness ==
  /\ last.op = "run"
  /\ KindOf(last.event.mask) = "move_self"
  /\ last.rc
  /\ last.rm = {last.event.wd}
  /\ last.event.wd \notin DOMAIN descriptor_inosubctx_

\* C7: removeMonitor on a descriptor that is not in the Watch Table returns
\* false, changes no table, subscription or kernel state and issues no
\* kernel removal call, whatever force and batch_del are; on a known
\* descriptor it returns true and the descriptor has no owner afterwards.
C7_RemoveUnknown ==
  [][last'.op = "removeMonitor" =>
       IF last'.watch \notin DOMAIN descriptor_inosubctx_
       THEN /\ ~last'.rc
            /\ last'.rm = {}
            /\ UNCHANGED <<descriptor_inosubctx_, path_descriptors_, ctx,
                           subscriptions_, kwd, nextWd>>
       ELSE /\ last'.rc
            /\ last'.watch \notin DOMAIN descriptor_inosubctx_']_vars

\* C7 witness: a forced batch removal of an unknown descriptor has returned
\* false while the table holds the watch of a kernel object.
C7_Witness ==
  /\ last.op = "removeMonitor"
  /\ ~last.rc /\ last.force /\ last.batch_del
  /\ \E o \in Objs : kwd[o] = last.watch
  /\ DOMAIN descriptor_inosubctx_ # {}

\* C8: when inotify_add_watch returns -1, addMonitor fails exactly when the
\* caller demanded a hard watch, and in neither case is the failure value
\* recorded as a descriptor in any table.
C8_RejectedPathNotRecorded ==
  (last.op = "addMonitor" /\ last.watch = KFail) =>
    /\ last.rc = ~last.add_watch
    /\ KFail \notin AllDescriptors

\* C4: a subscription that is marked for deletion when a configure pass
\* starts is, once the pass ends, absent from the registry and the owner of
\* no Watch Table entry, also when the reader dispatches records beside the
\* pass; a subscription that is not marked when the pass starts is not
\* removed from the registry by it.
C4_PurgedAtEndOfPass ==
  [][/\ (last'.op = "configure" /\ last'.step = "end") =>
          \A sub \in last'.purged :
            /\ sub \notin SeqSet(subscriptions_')
            /\ \A wd \in DOMAIN descriptor_inosubctx_' :
                 descriptor_inosubctx_'[wd] # sub
     /\ (last'.op = "configure" /\ last'.step = "start") =>
          \A sub \in SeqSet(subscriptions_) :
            ~ctx[sub].mark_for_deletion => sub \in SeqSet(subscriptions_')]_vars

\* C5: the registry never holds two subscriptions made from the same
\* declaration (the same pattern, mask and recursive flag).
C5_NoDuplicateDeclaration ==
  \A i, j \in 1..Len(subscriptions_) :
    i # j => ctx[subscriptions_[i]].declared # ctx[subscriptions_[j]].declared

\* The action of the first bit of an order that a mask holds, "" when it
\* holds none; an order is a sequence of pairs <<bit, action>>.
FirstIn(order, mask) ==
  IF \A i \in 1..Len(order) : order[i][1] \notin mask THEN ""
  ELSE order[CHOOSE i \in 1..Len(order) :
               /\ order[i][1] \in mask
               /\ \A j \in 1..(i - 1) : order[j][1] \notin mask][2]

\* access, attribute-change, write-close, create, delete, content-modify,
\* moved-from, moved-to, open
ListedOrder ==
  << <<IN_ACCESS, "ACCESSED">>, <<IN_ATTRIB, "ATTRIBUTES_MODIFIED">>,
     <<IN_CLOSE_WRITE, "UPDATED">>, <<IN_CREATE, "CREATED">>,
     <<IN_DELETE, "DELETED">>, <<IN_MODIFY, "UPDATED">>,
     <<IN_MOVED_FROM, "MOVED_FROM">>, <<IN_MOVED_TO, "MOVED_TO">>,
     <<IN_OPEN, "OPENED">> >>

\* access, content-modify, attribute-change, write-close, open, moved-from,
\* moved-to, create, delete: the bits by ascending value
ValueOrder ==
  << <<IN_ACCESS, "ACCESSED">>, <<IN_MODIFY, "UPDATED">>,
     <<IN_ATTRIB, "ATTRIBUTES_MODIFIED">>, <<IN_CLOSE_WRITE, "UPDATED">>,
     <<IN_OPEN, "OPENED">>, <<IN_MOVED_FROM, "MOVED_FROM">>,
     <<IN_MOVED_TO, "MOVED_TO">>, <<IN_CREATE, "CREATED">>,
     <<IN_DELETE, "DELETED">> >>

\* The reader holds the context of a record of a tracked descriptor
Decoded == rpc = "fire" /\ ec.isub_ctx # 0

\* C9, as stated: the action createEventContextFrom derives is that of the
\* first bit the mask holds in the order access, attribute-change,
\* write-close, create, delete, content-modify, moved-from, moved-to, open,
\* and is empty when the mask holds none of the nine bits.
C9_ListedPriority ==
  Decoded => ec.action = FirstIn(ListedOrder, ec.mask)

\* C9, amended: the action createEventContextFrom derives is that of the
\* first bit the mask holds in the order access, content-modify,
\* attribute-change, write-close, open, moved-from, moved-to, create,
\* delete (the ascending order of the bit values), and is empty when the
\* mask holds none of the nine bits.
C9_ValuePriority ==
  Decoded => ec.action = FirstIn(ValueOrder, ec.mask)

\* C9 witness: a record with the content-modify and attribute-change bits
\* has been decoded as UPDATED.
C9_Witness ==
  /\ Decoded
  /\ ec.mask = {IN_MODIFY, IN_ATTRIB}
  /\ ec.action = "UPDATED"

\* The path lies directly under the directory D
DirectlyUnder(path, D) ==
  \E name \in EventNames \ {<<>>} : path = D \o <<Slash>> \o name

\* The reader has dispatched a record of a descriptor whose owner is in the
\* registry and whose mask filter the record passes
Dispatched ==
  /\ last.op = "run"
  /\ KindOf(last.event.mask) = "event"
  /\ last.owner # 0
  /\ InRegistry(last.owner)
  /\ ctx[last.owner].mask # {} => last.event.mask \cap ctx[last.owner].mask # {}

\* C10: a record whose path lies directly under a directory of the exclude
\* set, or whose full path is in the set, is not emitted; a record that
\* passes the mask filter and whose containing directory and full path are
\* both absent from the non-empty exclude set is emitted to its owner.
C10_ExcludeFilter ==
  Dispatched =>
    /\ ((\E D \in exclude_paths_ : DirectlyUnder(last.path, D))
         \/ last.path \in exclude_paths_) => last.emitted = {}
    /\ (/\ exclude_paths_ # {}
        /\ BeforeLastSlash(last.path) \notin exclude_paths_
        /\ last.path \notin exclude_paths_) => last.emitted = {last.owner}

\* C10 witness: a record that passes the mask filter and lies directly
\* under an excluded directory, without being in the set itself, has been
\* dropped.
C10_Witness ==
  /\ Dispatched
  /\ \E D \in exclude_paths_ : DirectlyUnder(last.path, D)
  /\ last.path \notin exclude_paths_
  /\ last.emitted = {}

----------------------------------------------------------------------------
(* The Watch Table and its reverse index in either mode.                   *)

NextIndex ==
  \/ AddSubscription
  \/ AddMonitorCall(WatchPaths)
  \/ RemoveMonitorCall
  \/ IsPathMonitoredCall
  \/ EnvRecreate
  \/ EnvMkdir

SpecIndex == InitAnyMode /\ [][NextIndex]_vars

\* The paths of the descriptors the kernel handed out
LivePaths == {p \in TrackedPaths : DescriptorsOf(p) \ {KFail} # {}}

\* C11: isPathMonitored(path) returns true exactly when the Watch Table
\* holds a live descriptor whose path is the path itself (a file or a
\* directory) or, for a path that is no directory, its parent directory
\* with a trailing separator; in either mode.
C11_IsPathMonitoredExact ==
  last.op = "isPathMonitored" =>
    (last.rc <=>
       \/ last.path \in LivePaths
       \/ /\ ~isDirectory(last.path)
          /\ (ParentPath(last.path) \o <<Slash>>) \in LivePaths)

\* C20: in the stricter mode path_descriptors_[p] = d if and only if d is a
\* live descriptor whose recorded path is p.
C20_ReverseIndexExact ==
  inotify_sanity_check =>
    \A p \in TrackedPaths \cup DOMAIN path_descriptors_ :
      \A d \in AllDescriptors \cup {path_descriptors_[q] :
                                       q \in DOMAIN path_descriptors_} :
        (p \in DOMAIN path_descriptors_ /\ path_descriptors_[p] = d)
        <=> d \in DescriptorsOf(p)

----------------------------------------------------------------------------
(* Queue overflow: the capacity multiplier and the rate-limited report     *)

kINotifyMaxEvents == 512

\* sizeof(struct inotify_event): int wd; uint32_t mask, cookie, len
SizeofInotifyEvent == 16

NAME_MAX == 255

kINotifyEventSize == SizeofInotifyEvent + (NAME_MAX + 1)

kINotifyBufferSize == kINotifyMaxEvents * kINotifyEventSize

IN_Q_OVERFLOW == 16384

RECURSIVE IsPowerOfTwo(_)
IsPowerOfTwo(n) == n = 1 \/ (n > 1 /\ n % 2 = 0 /\ IsPowerOfTwo(n \div 2))

\* The initial multipliers: the powers of two not above the cap
InitialEvents == {n \in 1..kINotifyMaxEvents : IsPowerOfTwo(n)}

\* handleOverflow with the cap itself taken for below the cap
handleOverflow_AtCap(events, overflow, t1, t2) ==
  IF events <= kINotifyMaxEvents
  THEN [events |-> events * 2, overflow |-> overflow, log |-> "increasing"]
  ELSE IF overflow # 0 - 1 /\ t1 - overflow < 60
       THEN [events |-> events, overflow |-> overflow, log |-> "none"]
       ELSE [events |-> events, overflow |-> t2, log |-> "overflown"]

\* handleOverflow (lines 203-214) on the multiplier events and the time
\* overflow of the last report; t1 and t2 are the clock as read at line 208
\* and at line 212
handleOverflow(events, overflow, t1, t2) ==
  IF events < kINotifyMaxEvents
  THEN [events |-> events * 2, overflow |-> overflow, log |-> "increasing"]
  ELSE IF overflow # 0 - 1 /\ t1 - overflow < 60
       THEN [events |-> events, overflow |-> overflow, log |-> "none"]
       ELSE [events |-> events, overflow |-> t2, log |-> "overflown"]

\* A tick whose read (line 240) delivers one IN_Q_OVERFLOW record
\* (lines 248-250); the clock may advance while the handler runs
RunOverflow ==
  /\ \E t2 \in {t \in {now, now + 1} : t <= MaxTime} :
       \E r \in {handleOverflow(inotify_events_, last_overflow_, now, t2)} :
         /\ inotify_events_' = r.events
         /\ last_overflow_' = r.overflow
         /\ now' = t2
         /\ last' = [op |-> "handleOverflow",
                     mask |-> {IN_Q_OVERFLOW},
                     events |-> inotify_events_,
                     requested |-> inotify_events_ * kINotifyEventSize,
                     at |-> now,
                     log |-> r.log]
  /\ UNCHANGED <<subscriptions_, tableVars, exclude_paths_,
                 inotify_sanity_check, fsVars, cfgVars, readerVars, lockVars>>

\* A second passes
ClockTick ==
  /\ now < MaxTime
  /\ now' = now + 1
  /\ UNCHANGED <<subscriptions_, tableVars, exclude_paths_,
                 inotify_sanity_check, fsVars, cfgVars, readerVars, lockVars,
                 inotify_events_, last_overflow_, last>>

InitOverflow ==
  /\ Constructed
  /\ inotify_sanity_check = FALSE
  /\ inotify_events_ \in InitialEvents

NextOverflow ==
  \/ RunOverflow
  \/ ClockTick

SpecOverflow == InitOverflow /\ [][NextOverflow]_vars

\* A step that handles an overflow record
OverflowStep == last' # last /\ last'.op = "handleOverflow"

\* The multiplier stays within the cap and the read within the buffer
C12_ReadFitsBuffer ==
  /\ inotify_events_ <= kINotifyMaxEvents
  /\ inotify_events_ * kINotifyEventSize <= kINotifyBufferSize

\* An overflow record doubles the multiplier exactly when it is below the cap
C12_DoublesBelowCap ==
  OverflowStep =>
    inotify_events_' = IF inotify_events_ < kINotifyMaxEvents
                       THEN 2 * inotify_events_
                       ELSE inotify_events_

\* C12: handleOverflow doubles the capacity multiplier exactly when it is
\* below the cap and leaves it unchanged otherwise; from an initial power of
\* two not above the cap the multiplier never exceeds the cap, so the byte
\* count a read requests never exceeds the size of the decode buffer.
C12_MultiplierBounded ==
  /\ []C12_ReadFitsBuffer
  /\ [][C12_DoublesBelowCap /\ (OverflowStep => last'.requested <= kINotifyBufferSize)]_vars

\* An overflow record arrived with the multiplier at the cap, a read of the
\* whole buffer, and left the multiplier at the cap
C12_Witness ==
  /\ last.op = "handleOverflow"
  /\ last.events = kINotifyMaxEvents
  /\ last.requested = kINotifyBufferSize
  /\ inotify_events_ = kINotifyMaxEvents

\* C13: with the multiplier at the cap an overflow record is reported (its
\* time stored) only when none was reported before or more than 60 seconds
\* have passed since the last reported one; an overflow within the window
\* changes no state; two reported overflows are more than 60 seconds apart.
C13_ReportedOncePerWindow ==
  [][(OverflowStep /\ inotify_events_ = kINotifyMaxEvents) =>
       IF last_overflow_ = 0 - 1 \/ last'.at - last_overflow_ > 60
       THEN /\ last'.log = "overflown"
            /\ last_overflow_ # 0 - 1 => last_overflow_' - last_overflow_ > 60
       ELSE /\ last'.log = "none"
            /\ UNCHANGED <<inotify_events_, last_overflow_>>]_vars

----------------------------------------------------------------------------
(* Lazy installs of dispatch: recursive subscriptions with and without a   *)
(* mask, records of created and modified entries, an exclude set.          *)

\* A recursive pattern whose subscriber asks for modifications only
D_recMod == [path |-> P_dRec, mask |-> {IN_MODIFY}, recursive |-> FALSE]

LazyDecls == {D_rec, D_recMod, D_dir}

LazyEvents ==
  [wd : 1..MaxWd,
   mask : {{IN_CREATE}, {IN_MODIFY}, {IN_MODIFY, IN_CREATE}},
   name : {<<"n">>, <<"f">>}]

NextLazy ==
  \/ Subscribe(LazyDecls)
  \/ CfgPurgeAll
  \/ CfgResolve(ExcludeConfigs)
  \/ RunRecord(LazyEvents)
  \/ EnvMkdir
  \/ EnvRmdir

SpecLazy == Init /\ [][NextLazy]_vars

\* The reader has decoded a record of a tracked descriptor into an event
\* and handed it to dispatch
LazyDispatched ==
  /\ last.op = "run"
  /\ KindOf(last.event.mask) = "event"
  /\ last.owner # 0
  /\ ActionOf(last.event.mask) # ""

\* The record passes the mask filter of subscription s
PassesMask(s) ==
  ctx[s].mask = {} \/ last.event.mask \cap ctx[s].mask # {}

\* The conditions of the lazy install for subscription s
LazyCondition(s) ==
  /\ s = last.owner
  /\ ctx[s].recursive
  /\ ActionOf(last.event.mask) = "CREATED"
  /\ isDirectory(last.path)
  /\ PassesMask(s)

\* The tick left a descriptor of path + '/' owned by s that the kernel
\* returned to it
WatchInstalled(s) ==
  \E d \in last.add \ {KFail} :
    /\ d \in DOMAIN descriptor_inosubctx_
    /\ descriptor_inosubctx_[d] = s
    /\ d \in DOMAIN ctx[s].descriptor_paths_
    /\ ctx[s].descriptor_paths_[d] = last.path \o <<Slash>>

\* The record is dropped by the exclude filter
Excluded ==
  /\ exclude_paths_ # {}
  /\ \/ BeforeLastSlash(last.path) \in exclude_paths_
     \/ last.path \in exclude_paths_

\* C14: while a record is dispatched, a watch on path + '/' owned by a
\* subscription is installed if and only if the subscription owns the
\* record, is recursive, the action is CREATED, the path is a directory and
\* the record passed the mask filter, whether or not the exclude filter
\* drops the record.
C14_LazyInstallExact ==
  LazyDispatched =>
    \A s \in SeqSet(subscriptions_) : WatchInstalled(s) <=> LazyCondition(s)

\* C14 as amended: the install is requested exactly under these conditions,
\* and recorded for the subscription when the kernel returns a descriptor;
\* without the request the tick installs nothing.
C14_LazyInstallRequested ==
  LazyDispatched =>
    /\ \A s \in SeqSet(subscriptions_) :
         /\ (s \in last.installed) <=> LazyCondition(s)
         /\ WatchInstalled(s) <=>
              (LazyCondition(s) /\ last.add \ {KFail} # {})
    /\ last.installed = {} => last.add = {}
    /\ last.emitted =
         {s \in SeqSet(subscriptions_) :
            s = last.owner /\ PassesMask(s) /\ ~Excluded}

\* C14 witness: the watch of a created directory has been installed for a
\* recursive subscription although the exclude filter dropped the record
C14_Witness ==
  /\ LazyDispatched
  /\ Excluded
  /\ last.emitted = {}
  /\ WatchInstalled(last.owner)

----------------------------------------------------------------------------
(* Records in flight: the reader decodes records of any descriptor, whole  *)
(* ticks and step by step, beside the reconfiguration path.                *)

NextDrop ==
  \/ AddSubscription
  \/ RemoveSubscriptions
  \/ CfgStart
  \/ CfgPurge
  \/ CfgClear
  \/ CfgPurged
  \/ CfgResolve(NoExcludes)
  \/ RunRecord(InvalidationEvents \cup DirEvents)
  \/ RDecode(DirEvents)
  \/ RLookup
  \/ RShouldFire
  \/ EnvMkdir

SpecDrop == Init /\ [][NextDrop]_vars

\* A whole record of a descriptor unknown to the Watch Table changes
\* nothing, reaches no subscription and leaves the reader in its loop
DropWholeRecord ==
  (last'.op = "run" /\ last'.event.wd \notin DOMAIN descriptor_inosubctx_) =>
    /\ UNCHANGED <<tableVars, subscriptions_>>
    /\ last'.emitted = {} /\ last'.installed = {}
    /\ last'.add = {} /\ last'.rm = {}
    /\ rpc' = "idle"

\* The decode step of such a record yields a blank context
DropDecoded ==
  (/\ last'.op = "reader" /\ last'.step = "decode"
   /\ ec'.wd \notin DOMAIN descriptor_inosubctx_) =>
    /\ UNCHANGED <<tableVars, subscriptions_>>
    /\ ec'.isub_ctx = 0 /\ ec'.action = "" /\ ~ec'.thrown
    /\ rpc' = "fire"

\* A blank context is not handed to any subscription
DropNotFired ==
  (last'.op = "reader" /\ last'.step = "lookup" /\ ec.isub_ctx = 0) =>
    /\ UNCHANGED <<tableVars, subscriptions_>>
    /\ rpc' = "idle"

\* C15: a record whose descriptor is not in the Watch Table when it is
\* decoded is dropped silently: it is emitted to no subscription, installs
\* no watch, leaves the Watch Table unchanged, and the reader goes on with
\* the next record.
C15_UnknownDescriptorDropped ==
  [][DropWholeRecord /\ DropDecoded /\ DropNotFired]_vars

\* C15 witness: a record of a descriptor the kernel still watches and the
\* Watch Table no longer tracks has been dropped
C15_Witness ==
  /\ last.op = "run"
  /\ KindOf(last.event.mask) = "event"
  /\ last.owner = 0
  /\ last.event.wd \notin DOMAIN descriptor_inosubctx_
  /\ kwd["d"] = last.event.wd
  /\ last.emitted = {}

----------------------------------------------------------------------------
(* The locks.  A position of a thread is its call stack of source lines:   *)
(* <<263, 1, 318, 344>> is line 344 of addMonitor, called at line 318 of   *)
(* shouldFire, called by fire, called at line 263 of run(); <<>> is a      *)
(* thread outside run() and the reconfiguration calls.  The data the       *)
(* branches depend on is left open: every branch of the code is taken.     *)

\* The instructions: take a lock (the WriteLock constructors), give it back
\* (the end of the lock's scope, return statements inside it included), use
\* shared structures, go on to a next line, or loop (once more through the
\* body, or on to next).
NoBody == <<0>>

Acq(at, lock, next) ==
  [at |-> at, do |-> "acquire", lock |-> lock, uses |-> {}, next |-> {next},
   body |-> NoBody]
Rel(at, lock, next) ==
  [at |-> at, do |-> "release", lock |-> lock, uses |-> {}, next |-> {next},
   body |-> NoBody]
Use(at, uses, next) ==
  [at |-> at, do |-> "use", lock |-> "", uses |-> uses, next |-> next,
   body |-> NoBody]
Go(at, next) ==
  [at |-> at, do |-> "go", lock |-> "", uses |-> {}, next |-> next,
   body |-> NoBody]
Loop(at, body, exit) ==
  [at |-> at, do |-> "loop", lock |-> "", uses |-> {}, next |-> {exit},
   body |-> body]

Done == <<>>

\* removeMonitor (lines 386-413) called at stack s, returning to ret
RemoveMonitorCode(s, ret) ==
  { Acq(s \o <<390>>, "path_mutex_", s \o <<391>>),
    Use(s \o <<391>>, {"descriptor_inosubctx_"},
        {s \o <<392>>, s \o <<395>>}),
    Rel(s \o <<392>>, "path_mutex_", ret),
    Use(s \o <<395>>,
        {"descriptor_inosubctx_", "descriptor_paths_", "path_descriptors_"},
        {s \o <<406>>}),
    Rel(s \o <<406>>, "path_mutex_", s \o <<408>>),
    Go(s \o <<408>>, {ret}) }

\* addMonitor (lines 338-384) with recursive = false
AddMonitorLeafCode(s, ret) ==
  { Acq(s \o <<344>>, "path_mutex_", s \o <<345>>),
    Go(s \o <<345>>, {s \o <<349>>, s \o <<352>>}),
    Rel(s \o <<349>>, "path_mutex_", ret),
    Use(s \o <<352>>,
        {"descriptor_inosubctx_", "descriptor_paths_", "path_descriptors_"},
        {s \o <<369>>}),
    Rel(s \o <<369>>, "path_mutex_", s \o <<371>>),
    Go(s \o <<371>>, {ret}) }

\* addMonitor (lines 338-384): the children are installed by the calls of
\* line 379, after the lock block
AddMonitorCode(s, ret) ==
  { Acq(s \o <<344>>, "path_mutex_", s \o <<345>>),
    Go(s \o <<345>>, {s \o <<349>>, s \o <<352>>}),
    Rel(s \o <<349>>, "path_mutex_", ret),
    Use(s \o <<352>>,
        {"descriptor_inosubctx_", "descriptor_paths_", "path_descriptors_"},
        {s \o <<369>>}),
    Rel(s \o <<369>>, "path_mutex_", s \o <<371>>),
    Go(s \o <<371>>, {s \o <<377>>, ret}),
    Loop(s \o <<377>>, s \o <<379, 344>>, ret) }
  \cup AddMonitorLeafCode(s \o <<379>>, s \o <<377>>)

\* shouldFire (lines 305-336)
ShouldFireCode(s, ret) ==
  { Go(s \o <<307>>, {ret, s \o <<313>>}),
    Go(s \o <<313>>, {ret, s \o <<317>>}),
    Go(s \o <<317>>, {s \o <<318, 344>>, s \o <<327>>}),
    Use(s \o <<327>>, {"exclude_paths_"}, {ret}) }
  \cup AddMonitorCode(s \o <<318>>, s \o <<327>>)

\* EventPublisher::fire: the walk of the registry that calls shouldFire for
\* each subscription, under the registry lock (1) or without it (2)
FireCode(s, ret) ==
  { Go(s, {s \o <<1, 0>>, s \o <<2, 1>>}),
    Acq(s \o <<1, 0>>, "subscription_lock_", s \o <<1, 1>>),
    Use(s \o <<1, 1>>, {"subscriptions_"}, {s \o <<1, 2>>}),
    Loop(s \o <<1, 2>>, s \o <<1, 307>>, s \o <<1, 3>>),
    Rel(s \o <<1, 3>>, "subscription_lock_", ret),
    Use(s \o <<2, 1>>, {"subscriptions_"}, {s \o <<2, 2>>}),
    Loop(s \o <<2, 2>>, s \o <<2, 307>>, ret) }
  \cup ShouldFireCode(s \o <<1>>, s \o <<1, 1>>)
  \cup ShouldFireCode(s \o <<2>>, s \o <<2, 1>>)

\* A createEventContextFrom whose table lock stays held when it returns the
\* context of a tracked descriptor.
CreateEventContextCode_KeepLock(s, ret) ==
  { Acq(s \o <<281>>, "path_mutex_", s \o <<282>>),
    Use(s \o <<282>>, {"descriptor_inosubctx_"},
        {s \o <<284>>, s \o <<286>>}),
    Rel(s \o <<284>>, "path_mutex_", ret),
    Use(s \o <<286>>, {"descriptor_inosubctx_", "descriptor_paths_"},
        {s \o <<290>>}),
    Go(s \o <<290>>, {ret}) }

\* createEventContextFrom (lines 273-303)
CreateEventContextCode(s, ret) ==
  { Acq(s \o <<281>>, "path_mutex_", s \o <<282>>),
    Use(s \o <<282>>, {"descriptor_inosubctx_"},
        {s \o <<284>>, s \o <<286>>}),
    Rel(s \o <<284>>, "path_mutex_", ret),
    Use(s \o <<286>>, {"descriptor_inosubctx_", "descriptor_paths_"},
        {s \o <<290>>}),
    Rel(s \o <<290>>, "path_mutex_", ret) }

\* run (lines 216-271): poll, read, then the loop over the records read
RunCode ==
  { Go(<<218>>, {Done, <<238>>}),
    Acq(<<238>>, "scratch_mutex_", <<239>>),
    Use(<<239>>, {"scratch_", "inotify_events_"}, {<<242>>, <<247>>}),
    Rel(<<242>>, "scratch_mutex_", Done),
    Use(<<247>>, {"scratch_"},
        {<<250>>, <<253, 390>>, <<256, 390>>, <<259, 390>>, <<261, 281>>}),
    Use(<<250>>, {"inotify_events_", "last_overflow_"}, {<<267>>}),
    Go(<<262>>, {<<263>>, <<267>>}),
    Loop(<<267>>, <<247>>, <<270>>),
    Rel(<<270>>, "scratch_mutex_", Done) }
  \cup RemoveMonitorCode(<<253>>, <<267>>)
  \cup RemoveMonitorCode(<<256>>, <<267>>)
  \cup RemoveMonitorCode(<<259>>, <<267>>)
  \cup CreateEventContextCode(<<261>>, <<262>>)
  \cup FireCode(<<263>>, <<267>>)

\* needMonitoring (lines 70-90)
NeedMonitoringCode(s, ret) ==
  { Use(s \o <<77>>, {"path_sc_time_"}, {ret, s \o <<84>>}),
    Go(s \o <<84>>, {s \o <<85, 344>>, ret}),
    Use(s \o <<86>>, {"path_sc_time_"}, {ret}) }
  \cup AddMonitorCode(s \o <<85>>, s \o <<86>>)

\* monitorSubscription (lines 92-125)
MonitorSubscriptionCode(s, ret) ==
  { Go(s \o <<94>>, {s \o <<115>>, s \o <<125, 77>>}),
    Loop(s \o <<115>>, s \o <<116, 77>>, ret) }
  \cup NeedMonitoringCode(s \o <<116>>, s \o <<115>>)
  \cup NeedMonitoringCode(s \o <<125>>, ret)

\* configure (lines 147-188), with buildExcludePathsSet (lines 130-145);
\* the kernel handle is valid
ConfigureCode ==
  { Acq(<<155>>, "subscription_lock_", <<156>>),
    Use(<<156>>, {"subscriptions_"}, {<<168>>}),
    Rel(<<168>>, "subscription_lock_", <<170>>),
    Loop(<<170>>, <<172>>, <<179, 133>>),
    Use(<<172>>, {"descriptor_paths_"}, {<<174>>}),
    Loop(<<174>>, <<173, 390>>, <<175>>),
    Use(<<175>>, {"descriptor_paths_"}, {<<170>>}),
    Acq(<<179, 133>>, "subscription_lock_", <<179, 134>>),
    Use(<<179, 134>>, {"exclude_paths_"}, {<<179, 145>>}),
    Rel(<<179, 145>>, "subscription_lock_", <<181>>),
    Use(<<181>>, {"subscriptions_"}, {<<187>>}),
    Loop(<<187>>, <<186, 94>>, Done) }
  \cup RemoveMonitorCode(<<173>>, <<172>>)
  \cup MonitorSubscriptionCode(<<186>>, <<181>>)

\* removeSubscriptions (lines 415-425)
RemoveSubscriptionsCode ==
  { Acq(<<416>>, "subscription_lock_", <<417>>),
    Use(<<417>>, {"subscriptions_"}, {<<425>>}),
    Rel(<<425>>, "subscription_lock_", Done) }

\* addSubscription (lines 427-446)
AddSubscriptionCode ==
  { Acq(<<429>>, "subscription_lock_", <<431>>),
    Use(<<431>>, {"subscriptions_"}, {<<446>>}),
    Rel(<<446>>, "subscription_lock_", Done) }

Code ==
  RunCode \cup ConfigureCode \cup RemoveSubscriptionsCode
  \cup AddSubscriptionCode

Labels == {i.at : i \in Code}

CodeAt == [at \in Labels |-> CHOOSE i \in Code : i.at = at]

\* Where a thread enters: the reader ticks, the reconfiguration path calls
\* configure, removeSubscriptions or addSubscription
Entry(t) ==
  IF t = "reader" THEN {<<218>>} ELSE {<<155>>, <<416>>, <<429>>}

Holder(lock) ==
  IF lock = "scratch_mutex_" THEN scratch_mutex_
  ELSE IF lock = "path_mutex_" THEN path_mutex_
  ELSE subscription_lock_

\* The lock passes to h
SetHolder(lock, h) ==
  /\ scratch_mutex_' = IF lock = "scratch_mutex_" THEN h ELSE scratch_mutex_
  /\ path_mutex_' = IF lock = "path_mutex_" THEN h ELSE path_mutex_
  /\ subscription_lock_' =
       IF lock = "subscription_lock_" THEN h ELSE subscription_lock_

At(t) == tpc[t].at

\* The instruction a thread is at
Instr(t) == CodeAt[At(t)]

\* Thread t goes on at position to, with n iterations left
Goto(t, to, n) ==
  tpc' = [tpc EXCEPT ![t] = IF to = Done THEN Idle ELSE [at |-> to, n |-> n]]

lockIdle ==
  <<subscriptions_, tableVars, exclude_paths_, inotify_sanity_check,
    fsVars, cfgVars, readerVars, overflowVars>>

theLocks == <<scratch_mutex_, path_mutex_, subscription_lock_>>

\* A thread enters run() or a reconfiguration call
Begin(t) ==
  /\ At(t) = Done
  /\ \E e \in Entry(t) : Goto(t, e, MaxIter)
  /\ last' = [op |-> "begin", thread |-> t]
  /\ UNCHANGED <<lockIdle, theLocks>>

\* WriteLock lock(m): the thread waits until no thread holds m
Acquire(t) ==
  /\ At(t) # Done
  /\ Instr(t).do = "acquire"
  /\ Holder(Instr(t).lock) = Free
  /\ SetHolder(Instr(t).lock, t)
  /\ \E to \in Instr(t).next : Goto(t, to, tpc[t].n)
  /\ last' = [op |-> "acquire", thread |-> t]
  /\ UNCHANGED lockIdle

\* The scope of a lock ends
Release(t) ==
  /\ At(t) # Done
  /\ Instr(t).do = "release"
  /\ Holder(Instr(t).lock) = t
  /\ SetHolder(Instr(t).lock, Free)
  /\ \E to \in Instr(t).next : Goto(t, to, tpc[t].n)
  /\ last' = [op |-> "release", thread |-> t]
  /\ UNCHANGED lockIdle

\* A statement that reads or writes shared structures, or only branches
Statement(t) ==
  /\ At(t) # Done
  /\ Instr(t).do \in {"use", "go"}
  /\ \E to \in Instr(t).next : Goto(t, to, tpc[t].n)
  /\ last' = [op |-> "statement", thread |-> t]
  /\ UNCHANGED <<lockIdle, theLocks>>

\* A loop: once more through the body, or on
Iterate(t) ==
  /\ At(t) # Done
  /\ Instr(t).do = "loop"
  /\ \/ /\ tpc[t].n > 0
        /\ Goto(t, Instr(t).body, tpc[t].n - 1)
     \/ \E to \in Instr(t).next : Goto(t, to, tpc[t].n)
  /\ last' = [op |-> "loop", thread |-> t]
  /\ UNCHANGED <<lockIdle, theLocks>>

\* A step of thread t inside a call
Run(t) == Acquire(t) \/ Release(t) \/ Statement(t) \/ Iterate(t)

NextLock ==
  \/ \E t \in Threads : Begin(t)
  \/ \E t \in Threads : Acquire(t)
  \/ \E t \in Threads : Release(t)
  \/ \E t \in Threads : Statement(t)
  \/ \E t \in Threads : Iterate(t)

SpecLock == Init /\ [][NextLock]_vars

\* A mutex hands the lock to a waiting thread that can take it again and
\* again, and a running thread keeps running
SpecLockFair ==
  /\ SpecLock
  /\ \A t \in Threads : SF_vars(Run(t))

\* The locks thread t holds
Held(t) ==
  {l \in {"scratch_mutex_", "path_mutex_", "subscription_lock_"} :
     Holder(l) = t}

\* The reader is inside fire or shouldFire (line 263 and below)
InDispatch ==
  /\ Len(At("reader")) >= 1
  /\ At("reader")[1] = 263

\* C16: wherever the reader hands a record to fire/shouldFire, and so may
\* install a lazy watch, it does not hold scratch_mutex_.
C16_ScratchNotHeldInDispatch ==
  InDispatch => scratch_mutex_ # "reader"

\* The lock that guards a structure of the Watch Table or the registry
Guard(x) ==
  IF x \in {"descriptor_inosubctx_", "descriptor_paths_", "path_descriptors_"}
  THEN "path_mutex_"
  ELSE "subscription_lock_"

Guarded ==
  {"descriptor_inosubctx_", "descriptor_paths_", "path_descriptors_",
   "subscriptions_", "exclude_paths_"}

\* The guarded structures thread t is about to read or write
Using(t) == IF At(t) = Done THEN {} ELSE Instr(t).uses \cap Guarded

\* C17: every read or write of descriptor_inosubctx_, descriptor_paths_,
\* path_descriptors_, the subscriptions list and the exclude set happens
\* while the accessing thread holds the lock guarding the structure, so no
\* two threads are at the same structure at once.
C17_AccessesUnderLock ==
  /\ \A t \in Threads : \A x \in Using(t) : Guard(x) \in Held(t)
  /\ Using("reader") \cap Using("config") = {}

\* Thread t waits for a lock that thread u holds
WaitsFor(t, u) ==
  /\ At(t) # Done
  /\ Instr(t).do = "acquire"
  /\ Holder(Instr(t).lock) = u

\* No thread takes a lock it holds, and no two threads wait for each other
NoLockCycle ==
  /\ \A t \in Threads : ~WaitsFor(t, t)
  /\ \A t, u \in Threads : ~(WaitsFor(t, u) /\ WaitsFor(u, t))

\* C18: no thread tries to take a lock it already holds, the reader and the
\* reconfiguration path never wait for each other in a cycle, and every
\* started tick and reconfiguration call completes.
C18_DeadlockFree ==
  /\ []NoLockCycle
  /\ \A t \in Threads : (At(t) # Done) ~> (At(t) = Done)

\* C18 witness: the lazy install of dispatch waits for the table lock while
\* the reconfiguration path holds it
C18_Witness ==
  /\ InDispatch
  /\ WaitsFor("reader", "config")
  /\ Instr("reader").lock = "path_mutex_"

----------------------------------------------------------------------------
(* Reconfiguration and the change-time cache                               *)

\* The kernel would accept a watch of the path: it holds one, or has a
\* descriptor left
KernelAccepts(path) ==
  /\ ObjOf(path) # "none"
  /\ exists[ObjOf(path)]
  /\ (kwd[ObjOf(path)] # 0 \/ nextWd <= MaxWd)

\* Subscription s owns a live Watch Table entry for the path
OwnsWatchOf(s, path) ==
  \E d \in DOMAIN descriptor_inosubctx_ \ {KFail} :
    /\ descriptor_inosubctx_[d] = s
    /\ d \in DOMAIN ctx[s].descriptor_paths_
    /\ ctx[s].descriptor_paths_[d] = path

\* C19: after every completed configure pass every active subscription
\* whose resolved concrete path exists and is accepted by the kernel owns a
\* live Watch Table entry for that path, also after a kernel invalidation of
\* its watch or after another subscription took over or purged the shared
\* descriptor: skipping the install on an unchanged change-time loses
\* nothing.
C19_WatchedAfterConfigure ==
  (last.op = "configure" /\ last.step = "end") =>
    \A s \in SeqSet(subscriptions_) :
      (/\ ~ctx[s].mark_for_deletion
       /\ Find(ctx[s].path, <<Star>>) = 0
       /\ KernelAccepts(ctx[s].path))
      => OwnsWatchOf(s, ctx[s].path)

====
